---- MODULE Spec2Model ----
(***************************************************************************)
(* Model of src/app.py: the Telegram handler handle_video_download, its    *)
(* credential rotation loop, the external commands it runs (yt-dlp,        *)
(* ffmpeg), the Telegram calls it awaits and the session directory it      *)
(* creates and removes.                                                    *)
(*                                                                         *)
(* A text (a message, a URL, a stderr, an exception message, a message to  *)
(* the user) is modelled by the pieces it is made of: a message text is a  *)
(* sequence of tokens, every other text a set of phrases.  The operator    *)
(* `in` of Python is Contains, str.lower() is Lower.                       *)
(***************************************************************************)
EXTENDS Integers, Sequences, FiniteSets, TLC

\* Largest number of INSTAGRAM_COOKIES<i> variables the environment sets.
MaxCookies == 2

-----------------------------------------------------------------------------
(* Texts: phrases, substring search, lower-casing.                         *)

\* The substrings the handler searches for.
N_HOST == "No address associated with hostname"
N_LOGIN == "login is required"
N_NETBLOCK == "Network block detected for Instagram"
N_INVALID == "Invalid Instagram URL"
N_MEDIA == "Media file not found"
N_FFMPEG == "FFmpeg encoding failed"
N_DLFAIL == "Download failed"

\* Phrases of the stderr of an external command.
P_GENERIC == "ERROR: Unsupported URL"
P_HOST == "[Errno -5] No address associated with hostname"
P_LOGIN == "ERROR: login is required to view this content"
P_LOGIN_CAP == "ERROR: Login is required"

\* Their lower-case forms.
L_LOGIN == "error: login is required to view this content"
L_LOGIN_CAP == "error: login is required"

\* Phrases of the exceptions the handler raises itself.
P_NETBLOCK == "Network block detected for Instagram. Instagram downloads might not work from this server."
P_INVALID == "Invalid Instagram URL format. Please provide a Reel, Post, or IGTV link."
P_NOCOOKIES == "Instagram URL detected but no cookies are configured. This is often required for Instagram downloads."
P_META == "Metadata extraction failed: "
P_DLFAIL == "Download failed: "
P_MEDIA_NF == "Downloaded media file not found after yt-dlp operation."
P_OUTPUT_NF == "FFmpeg output file not found."
P_FFMPEG == "FFmpeg encoding failed: "
P_UNEXPECTED == "Unexpected state: No successful download or error was propagated."
P_UNKNOWN == "Unknown error."
P_INDEX == "list index out of range"

\* Phrases of the exceptions of the libraries.
P_TGERR == "Timed out"
P_OSERR == "[Errno 11] Resource temporarily unavailable"
P_JSON == "Expecting value: line 1 column 1 (char 0)"
P_NOFILE == "[Errno 2] No such file or directory"

\* The substrings of NeedlesIn's domain that occur, case-sensitively, in a phrase.
NeedlesIn(p) ==
    CASE p = P_HOST -> {N_HOST}
      [] p = P_LOGIN -> {N_LOGIN}
      [] p = L_LOGIN -> {N_LOGIN}
      [] p = L_LOGIN_CAP -> {N_LOGIN}
      [] p = P_NETBLOCK -> {N_NETBLOCK}
      [] p = P_INVALID -> {N_INVALID}
      [] p = P_DLFAIL -> {N_DLFAIL}
      [] p = P_FFMPEG -> {N_FFMPEG}
      [] OTHER -> {}

\* str.lower() of one phrase.
LowerPhrase(p) ==
    CASE p = P_GENERIC -> "error: unsupported url"
      [] p = P_HOST -> "[errno -5] no address associated with hostname"
      [] p = P_LOGIN -> L_LOGIN
      [] p = P_LOGIN_CAP -> L_LOGIN_CAP
      [] p = P_NETBLOCK -> "network block detected for instagram. instagram downloads might not work from this server."
      [] p = P_INVALID -> "invalid instagram url format. please provide a reel, post, or igtv link."
      [] p = P_NOCOOKIES -> "instagram url detected but no cookies are configured. this is often required for instagram downloads."
      [] p = P_META -> "metadata extraction failed: "
      [] p = P_DLFAIL -> "download failed: "
      [] p = P_MEDIA_NF -> "downloaded media file not found after yt-dlp operation."
      [] p = P_OUTPUT_NF -> "ffmpeg output file not found."
      [] p = P_FFMPEG -> "ffmpeg encoding failed: "
      [] p = P_UNEXPECTED -> "unexpected state: no successful download or error was propagated."
      [] p = P_UNKNOWN -> "unknown error."
      [] p = P_TGERR -> "timed out"
      [] p = P_OSERR -> "[errno 11] resource temporarily unavailable"
      [] p = P_JSON -> "expecting value: line 1 column 1 (char 0)"
      [] p = P_NOFILE -> "[errno 2] no such file or directory"
      [] OTHER -> p

\* text.lower()
Lower(text) == {LowerPhrase(p) : p \in text}

\* needle in text
Contains(text, needle) == \E p \in text : needle \in NeedlesIn(p)

-----------------------------------------------------------------------------
(* The message text and the two regular expressions of the handler.        *)

\* Tokens of a message text.
T_WORD == "check"
T_SPACE == " "
T_SCHEME == "https://"
T_WWW == "www."
T_IG == "instagram.com"
T_HOST == "example.com"
T_REEL == "/reel/"
T_POST == "/p/"
T_STORIES == "/stories/"
T_ID == "ABC123"
T_SLASH == "/"

\* The message texts a request is drawn from.
Texts ==
    { <<T_WORD>>,
      <<T_WORD, T_SPACE, T_SCHEME>>,
      <<T_SCHEME, T_SPACE, T_ID>>,
      <<T_IG, T_REEL, T_ID>>,
      <<T_WORD, T_SPACE, T_SCHEME, T_HOST, T_SLASH, T_ID>>,
      <<T_WORD, T_SPACE, T_SCHEME, T_IG, T_REEL, T_ID, T_SLASH>>,
      <<T_SCHEME, T_WWW, T_IG, T_POST, T_ID, T_SPACE, T_WORD>>,
      <<T_SCHEME, T_IG, T_STORIES, T_ID>>,
      <<T_SCHEME, T_IG, T_REEL>>,
      <<T_SCHEME, T_HOST, T_SLASH, T_IG, T_REEL, T_ID>> }

\* [^\s]: the token holds no white space.
NonSpace(t) == t # T_SPACE

\* The token begins with a character of [a-zA-Z0-9_-].
StartsWithIdChar(t) == t \in {T_WORD, T_SCHEME, T_WWW, T_IG, T_HOST, T_ID}

\* Mutant of UrlStart: the scheme alone is taken for a URL.
UrlStartSchemeOnly(text) ==
    LET starts == {i \in 1..Len(text) : text[i] = T_SCHEME}
    IN  IF starts = {} THEN 0
        ELSE CHOOSE i \in starts : \A j \in starts : i <= j

\* re.search(r'https?://[^\s]+', message_text): the start of the leftmost
\* match, 0 when there is none.
UrlStart(text) ==
    LET starts == {i \in 1..Len(text) :
                       /\ text[i] = T_SCHEME
                       /\ i + 1 <= Len(text)
                       /\ NonSpace(text[i + 1])}
    IN  IF starts = {} THEN 0
        ELSE CHOOSE i \in starts : \A j \in starts : i <= j

\* url_match.group(0): the match runs to the first white space.
UrlOf(text) ==
    LET s == UrlStart(text)
        stops == {j \in s..Len(text) : ~NonSpace(text[j])}
        e == IF stops = {} THEN Len(text)
             ELSE (CHOOSE j \in stops : \A k \in stops : j <= k) - 1
    IN  SubSeq(text, s, e)

\* "instagram.com" in input_url
IsInstagramUrl(url) == \E i \in 1..Len(url) : url[i] = T_IG

\* re.search(r'https?://(?:www\.)?instagram\.com/(reel|p|tv)/([a-zA-Z0-9_-]+)/?', input_url)
StrictMatch(url) ==
    \E i \in 1..Len(url) :
        /\ url[i] = T_SCHEME
        /\ \E k \in {i + 1, i + 2} :
              /\ k = i + 2 => (k - 1 <= Len(url) /\ url[k - 1] = T_WWW)
              /\ k + 2 <= Len(url)
              /\ url[k] = T_IG
              /\ url[k + 1] \in {T_REEL, T_POST}
              /\ StartsWithIdChar(url[k + 2])

-----------------------------------------------------------------------------
(* Startup: the credentials.                                               *)

\* The value of INSTAGRAM_COOKIES<i> when it is set.
CookieValue(i) == IF i = 1 THEN "cookie-A" ELSE IF i = 2 THEN "cookie-B" ELSE "cookie-C"

\* The environments: which of INSTAGRAM_COOKIES1.. are set ("" is unset).
Environments == [1..MaxCookies -> BOOLEAN]

\* load_cookies(): the values of INSTAGRAM_COOKIES1, 2, ... up to the first
\* one that is unset or empty.
load_cookies(env) ==
    LET n == Cardinality({i \in 1..MaxCookies : \A j \in 1..i : env[j]})
    IN  [i \in 1..n |-> CookieValue(i)]

\* Mutant of Samples: a draw with replacement, as random.choices would make.
SamplesWithRepetition(n) == [1..n -> 1..n]

\* random.sample(population, len(population)): the orders it can return, each
\* a function from the place in the sample to the place in the population.
Samples(n) == {f \in [1..n -> 1..n] : \A i, j \in 1..n : f[i] = f[j] => i = j}

-----------------------------------------------------------------------------
(* The state.                                                              *)

\* uuid.uuid4().hex[:8]: the identifiers it can give.  Requests are handled one
\* after the other here, so a directory left behind by one request is met
\* again by the next one that draws the same identifier.
SessionIds == {"3f9a1c07"}

\* The identifiers a second request, handled at the same time, can draw: the
\* one of the first request, or another.
PeerIds == SessionIds \cup {"b42e88d1"}

\* The directories TEMP_DIR can hold.
Directories == SessionIds \cup PeerIds

VARIABLES
    COOKIES,                \* the module-level credential list
    fs,                     \* TEMP_DIR: the session directories and their files
    pc,                     \* where the handler is (the await it is suspended at)
    result,                 \* how the handler ended
    message_text, input_url, is_instagram_url, session_id,
    cookies_to_use, sample_pos, attempts_left, current_cookie_index, cookie_path,
    last_error, exc, user_msg,
    chat_status,            \* the text of the status message in the chat
    chat_replies,           \* the other messages delivered to the chat
    chat_docs,              \* the documents delivered to the chat
    cmds,                   \* the external commands invoked by the request
    tried,                  \* the places of COOKIES used by the attempts
    outcomes,               \* how each attempt of the request ended
    peer_pc,                \* a second run of the handler: "idle" or "running"
    peer_id                 \* its session_id

reqv == <<message_text, input_url, is_instagram_url, session_id>>
loopv == <<cookies_to_use, sample_pos, attempts_left, current_cookie_index, cookie_path>>
errv == <<last_error, exc, user_msg>>
chatv == <<chat_status, chat_replies, chat_docs>>
histv == <<cmds, tried, outcomes>>
peerv == <<peer_pc, peer_id>>
vars == <<COOKIES, fs, pc, result, reqv, loopv, errv, chatv, histv, peerv>>

NoDir == [exists |-> FALSE, cookie |-> "", media |-> FALSE, output |-> FALSE]
NoExc == [kind |-> "none", msg |-> {}]

\* An exception of class Exception (ValueError, RuntimeError, a Telegram error...).
Raised(msg) == [kind |-> "Exception", msg |-> msg]

\* asyncio.CancelledError: not an Exception.
Cancelled == [kind |-> "CancelledError", msg |-> {}]

\* The messages to the user.
U_NO_URL == "Please send a valid video URL."
U_PROCESSING == "Processing..."
U_FETCHING == "Fetching video metadata"
U_DOWNLOADING == "Downloading best quality video and audio"
U_ENCODING == "Re-encoding video with FFmpeg"
U_UPLOADING == "Uploading to Telegram..."
U_FAILED == "Failed to process video."
U_INVALID_IG == "That doesn't look like a valid Instagram video URL."
U_NETBLOCK == "It seems there's a network block preventing access to Instagram from this server."
U_LOGIN == "Login required to access this video. All login attempts failed."
U_MEDIA_NF == "Could not find the media file after download."
U_ENCODE_FAILED == "Video encoding failed."
U_DOWNLOAD_FAILED == "Video download failed: "

\* The state of a handler that is not running.
Reset ==
    /\ pc' = "idle"
    /\ result' = "none"
    /\ message_text' = <<>>
    /\ input_url' = <<>>
    /\ is_instagram_url' = FALSE
    /\ session_id' = ""
    /\ cookies_to_use' = <<>>
    /\ sample_pos' = <<>>
    /\ attempts_left' = 0
    /\ current_cookie_index' = 0
    /\ cookie_path' = "None"
    /\ last_error' = {}
    /\ exc' = NoExc
    /\ user_msg' = {}
    /\ chat_status' = {}
    /\ chat_replies' = <<>>
    /\ chat_docs' = 0
    /\ cmds' = <<>>
    /\ tried' = <<>>
    /\ outcomes' = <<>>

Init ==
    /\ COOKIES \in {load_cookies(env) : env \in Environments}
    /\ fs = [d \in Directories |-> NoDir]
    /\ pc = "idle"
    /\ result = "none"
    /\ message_text = <<>>
    /\ input_url = <<>>
    /\ is_instagram_url = FALSE
    /\ session_id = ""
    /\ cookies_to_use = <<>>
    /\ sample_pos = <<>>
    /\ attempts_left = 0
    /\ current_cookie_index = 0
    /\ cookie_path = "None"
    /\ last_error = {}
    /\ exc = NoExc
    /\ user_msg = {}
    /\ chat_status = {}
    /\ chat_replies = <<>>
    /\ chat_docs = 0
    /\ cmds = <<>>
    /\ tried = <<>>
    /\ outcomes = <<>>
    /\ peer_pc = "idle"
    /\ peer_id = ""

-----------------------------------------------------------------------------
(* The file system, the external commands, the Telegram calls.             *)

\* os.makedirs(session_path, exist_ok=True)
makedirs(f, d) == [f EXCEPT ![d].exists = TRUE]

\* shutil.rmtree(session_path): the directory and all it holds.
rmtree(f, d) == [f EXCEPT ![d] = NoDir]

\* The texts an external command can leave on stderr when it fails.
StdErrs == { {P_GENERIC}, {P_HOST}, {P_LOGIN}, {P_LOGIN_CAP}, {P_HOST, P_LOGIN} }

\* What run_command can give: the command could not be launched (it raises),
\* or it ran and exited with a status; `made` says whether a command that
\* exited with 0 made what it is run for (parseable JSON, the media file, the
\* output file).
CmdResults ==
    {[launched |-> FALSE, exit |-> 1, stderr |-> {}, made |-> FALSE]}
    \cup {[launched |-> TRUE, exit |-> 0, stderr |-> {}, made |-> m] : m \in BOOLEAN}
    \cup {[launched |-> TRUE, exit |-> 1, stderr |-> e, made |-> FALSE] : e \in StdErrs}

\* The classification of the stderr of a failed yt-dlp command.
ClassifyFailure(stderr, ig) ==
    IF Contains(stderr, N_HOST) /\ ig THEN "netblock"
    ELSE IF Contains(Lower(stderr), N_LOGIN) /\ ig THEN "retry"
    ELSE "fatal"

\* The message to the user for the exception text e that ends the request.
UserMessage(e, last) ==
    IF Contains(e, N_INVALID) THEN {U_INVALID_IG}
    ELSE IF Contains(e, N_NETBLOCK) THEN {U_NETBLOCK}
    ELSE IF Contains(Lower(last), N_LOGIN) THEN {U_LOGIN}
    ELSE IF Contains(e, N_MEDIA) THEN {U_MEDIA_NF}
    ELSE IF Contains(e, N_FFMPEG) THEN {U_ENCODE_FAILED}
    ELSE IF Contains(e, N_DLFAIL) THEN {U_DOWNLOAD_FAILED} \cup e
    ELSE {U_FAILED}

\* The file "cookie.txt" the command line names, "" when it names none.
CookieOfCommand == IF cookie_path = "None" THEN "" ELSE fs[session_id].cookie

-----------------------------------------------------------------------------
(* The handler, one action for each stretch of code between two awaits.    *)

\* A message arrives: the URL is searched, the session directory is made.
Receive(text, sid) ==
    /\ pc = "idle"
    /\ message_text' = text
    /\ IF UrlStart(text) = 0
       THEN /\ pc' = "reply_no_url"
            /\ UNCHANGED <<input_url, session_id, fs>>
       ELSE /\ input_url' = UrlOf(text)
            /\ session_id' = sid
            /\ fs' = makedirs(fs, sid)
            /\ pc' = "reply_processing"
    /\ UNCHANGED <<COOKIES, peerv, result, is_instagram_url, loopv, errv, chatv, histv>>

\* return await message.reply_text("Please send a valid video URL.")
ReplyNoUrl(ok) ==
    /\ pc = "reply_no_url"
    /\ pc' = "done"
    /\ IF ok
       THEN /\ chat_replies' = Append(chat_replies, {U_NO_URL})
            /\ result' = "returned"
            /\ exc' = exc
       ELSE /\ chat_replies' = chat_replies
            /\ result' = "raised"
            /\ exc' = Raised({P_TGERR})
    /\ UNCHANGED <<COOKIES, peerv, fs, reqv, loopv, last_error, user_msg, chat_status,
                   chat_docs, histv>>

\* status_message = await message.reply_text("Processing..."), before the try.
ReplyProcessing(ok) ==
    /\ pc = "reply_processing"
    /\ IF ok
       THEN /\ chat_status' = {U_PROCESSING}
            /\ last_error' = {P_UNKNOWN}
            /\ is_instagram_url' = IsInstagramUrl(input_url)
            /\ pc' = "prepare"
            /\ UNCHANGED <<result, exc>>
       ELSE /\ pc' = "done"
            /\ result' = "raised"
            /\ exc' = Raised({P_TGERR})
            /\ UNCHANGED <<chat_status, last_error, is_instagram_url>>
    /\ UNCHANGED <<COOKIES, peerv, fs, message_text, input_url, session_id, loopv,
                   user_msg, chat_replies, chat_docs, histv>>

\* Mutant of Validate: the shape of the URL is not checked.
ValidateWithoutShape(ig, url, cookies) ==
    IF ig /\ cookies = <<>> THEN {P_NOCOOKIES} ELSE {}

\* Mutant of Validate: the credentials are not checked.
ValidateWithoutCookies(ig, url, cookies) ==
    IF ig /\ ~StrictMatch(url) THEN {P_INVALID} ELSE {}

\* if is_instagram_url: the two checks that raise ValueError; the text of the
\* error, {} when none is raised.
Validate(ig, url, cookies) ==
    IF ig /\ ~StrictMatch(url) THEN {P_INVALID}
    ELSE IF ig /\ cookies = <<>> THEN {P_NOCOOKIES}
    ELSE {}

\* Mutant of PopulationAfterSample: the list is shuffled in place, as
\* random.shuffle(COOKIES) would do.
PopulationShuffledInPlace(population, sample) ==
    [i \in 1..Len(population) |-> population[sample[i]]]

\* The population after random.sample(population, k): the sample is a new
\* list, the population is left as it was.
PopulationAfterSample(population, sample) == population

\* Mutant of UsesCookies: the credentials are used for every URL.
UsesCookiesForEveryUrl(cookies, ig) == cookies # <<>>

\* if COOKIES and is_instagram_url: the request goes through the credentials.
UsesCookies(cookies, ig) == cookies # <<>> /\ ig

\* The checks of the URL and of COOKIES, the shuffle, the attempt budget.
Prepare(sample) ==
    /\ pc = "prepare"
    /\ IF Validate(is_instagram_url, input_url, COOKIES) # {}
       THEN /\ exc' = Raised(Validate(is_instagram_url, input_url, COOKIES))
            /\ pc' = "request_failed"
            /\ UNCHANGED <<COOKIES, loopv>>
       ELSE /\ IF UsesCookies(COOKIES, is_instagram_url)
               THEN /\ sample_pos' = sample
                    /\ cookies_to_use' = [i \in 1..Len(COOKIES) |-> COOKIES[sample[i]]]
                    /\ COOKIES' = PopulationAfterSample(COOKIES, sample)
               ELSE /\ sample_pos' = <<>>
                    /\ cookies_to_use' = <<>>
                    /\ COOKIES' = COOKIES
            /\ attempts_left' = IF cookies_to_use' # <<>> THEN Len(cookies_to_use') ELSE 1
            /\ current_cookie_index' = 0
            /\ cookie_path' = cookie_path
            /\ exc' = exc
            /\ pc' = "loop"
    /\ UNCHANGED <<peerv, fs, result, reqv, last_error, user_msg, chatv, histv>>

\* How an attempt ended: `how` names the step that ended it, stderr is the
\* stderr of the yt-dlp command that exited with a status other than 0.
Outcome(how, stderr) == [how |-> how, stderr |-> stderr]

\* An attempt ends by raising e inside the inner try.
RaiseInAttempt(e, outcome) ==
    /\ exc' = Raised(e)
    /\ outcomes' = Append(outcomes, outcome)
    /\ pc' = "attempt_failed"

\* while attempts_left > 0: the credential of the attempt is chosen and written
\* to cookie.txt; after the loop, raise RuntimeError("Unexpected state...").
Loop ==
    /\ pc = "loop"
    /\ IF attempts_left <= 0
       THEN /\ exc' = Raised({P_UNEXPECTED})
            /\ pc' = "request_failed"
            /\ UNCHANGED <<fs, cookie_path, tried, outcomes>>
       ELSE IF cookies_to_use # <<>> /\ current_cookie_index + 1 > Len(cookies_to_use)
       THEN /\ exc' = Raised({P_INDEX})
            /\ pc' = "request_failed"
            /\ UNCHANGED <<fs, cookie_path, tried, outcomes>>
       ELSE LET cookie_str == IF cookies_to_use # <<>>
                              THEN cookies_to_use[current_cookie_index + 1]
                              ELSE ""
            IN  /\ cookie_path' = IF cookie_str # "" THEN "cookie.txt" ELSE "None"
                /\ tried' = Append(tried, IF cookies_to_use # <<>>
                                          THEN sample_pos[current_cookie_index + 1]
                                          ELSE 0)
                /\ IF cookie_str # "" /\ ~fs[session_id].exists
                   THEN \* open(cookie_path, "w") in a directory that is gone
                        /\ RaiseInAttempt({P_NOFILE}, Outcome("open", {}))
                        /\ fs' = fs
                   ELSE /\ fs' = IF cookie_str # ""
                                 THEN [fs EXCEPT ![session_id].cookie = cookie_str]
                                 ELSE fs
                        /\ exc' = exc
                        /\ outcomes' = outcomes
                        /\ pc' = "edit_fetching"
    /\ UNCHANGED <<COOKIES, peerv, result, reqv, cookies_to_use, sample_pos, attempts_left,
                   current_cookie_index, last_error, user_msg, chatv, cmds>>

\* The exit status of a command that is running or could not be started.
NoExit == -1

\* run_command has returned r for the last command started; found tells
\* whether what the handler looks for after it is there (the JSON of the
\* fetch, the media file of the download, the output file of the encoding).
CommandReturned(r, found) ==
    cmds' = [cmds EXCEPT ![Len(cmds)].exit = IF r.launched THEN r.exit ELSE NoExit,
                         ![Len(cmds)].found = found]

\* await status_message.edit_text(status), then the command cmd is started.
EditThenRun(here, status, cmd, there, ok) ==
    /\ pc = here
    /\ IF ok
       THEN /\ chat_status' = {status}
            /\ cmds' = Append(cmds, [cmd |-> cmd,
                                     cookie |-> IF cmd = "ffmpeg" THEN "" ELSE CookieOfCommand,
                                     attempt |-> Len(tried),
                                     exit |-> NoExit,
                                     found |-> FALSE])
            /\ pc' = there
            /\ UNCHANGED <<exc, outcomes>>
       ELSE /\ RaiseInAttempt({P_TGERR}, Outcome("telegram", {}))
            /\ UNCHANGED <<chat_status, cmds>>
    /\ UNCHANGED <<COOKIES, peerv, fs, result, reqv, loopv, last_error, user_msg,
                   chat_replies, chat_docs, tried>>

EditFetching(ok) == EditThenRun("edit_fetching", U_FETCHING, "fetch", "run_fetch", ok)

EditDownloading(ok) == EditThenRun("edit_downloading", U_DOWNLOADING, "download", "run_download", ok)

EditEncoding(ok) == EditThenRun("edit_encoding", U_ENCODING, "ffmpeg", "run_ffmpeg", ok)

\* Mutant of YtDlpFailed: the `continue` of the authentication-required branch
\* is missing, the attempt goes on to its next step.
YtDlpFailedFallsThrough(step, stderr, prefix) ==
    /\ last_error' = stderr
    /\ LET class == ClassifyFailure(stderr, is_instagram_url)
       IN  IF class = "netblock"
           THEN /\ RaiseInAttempt({P_NETBLOCK}, Outcome(step, stderr))
                /\ UNCHANGED <<attempts_left, current_cookie_index>>
           ELSE IF class = "retry"
           THEN /\ attempts_left' = attempts_left - 1
                /\ current_cookie_index' = current_cookie_index + 1
                /\ outcomes' = Append(outcomes, Outcome(step, stderr))
                /\ exc' = exc
                /\ pc' = IF step = "fetch" THEN "edit_downloading" ELSE "edit_encoding"
           ELSE /\ RaiseInAttempt({prefix} \cup stderr, Outcome(step, stderr))
                /\ UNCHANGED <<attempts_left, current_cookie_index>>

\* Mutant of YtDlpFailed: last_error is not set by the branches on stderr, it
\* keeps the text of the except clause of an earlier attempt.
YtDlpFailedKeepsLastError(step, stderr, prefix) ==
    /\ last_error' = last_error
    /\ LET class == ClassifyFailure(stderr, is_instagram_url)
       IN  IF class = "netblock"
           THEN /\ RaiseInAttempt({P_NETBLOCK}, Outcome(step, stderr))
                /\ UNCHANGED <<attempts_left, current_cookie_index>>
           ELSE IF class = "retry"
           THEN /\ attempts_left' = attempts_left - 1
                /\ current_cookie_index' = current_cookie_index + 1
                /\ outcomes' = Append(outcomes, Outcome(step, stderr))
                /\ exc' = exc
                /\ pc' = "loop"
           ELSE /\ RaiseInAttempt({prefix} \cup stderr, Outcome(step, stderr))
                /\ UNCHANGED <<attempts_left, current_cookie_index>>

\* Mutant of YtDlpFailed: the authentication-required branch advances the
\* index without counting the attempt.
YtDlpFailedKeepsAttempts(step, stderr, prefix) ==
    /\ last_error' = stderr
    /\ LET class == ClassifyFailure(stderr, is_instagram_url)
       IN  IF class = "netblock"
           THEN /\ RaiseInAttempt({P_NETBLOCK}, Outcome(step, stderr))
                /\ UNCHANGED <<attempts_left, current_cookie_index>>
           ELSE IF class = "retry"
           THEN /\ attempts_left' = attempts_left
                /\ current_cookie_index' = current_cookie_index + 1
                /\ outcomes' = Append(outcomes, Outcome(step, stderr))
                /\ exc' = exc
                /\ pc' = "loop"
           ELSE /\ RaiseInAttempt({prefix} \cup stderr, Outcome(step, stderr))
                /\ UNCHANGED <<attempts_left, current_cookie_index>>

\* A yt-dlp command exited with a status other than 0.
YtDlpFailed(step, stderr, prefix) ==
    /\ last_error' = stderr
    /\ LET class == ClassifyFailure(stderr, is_instagram_url)
       IN  IF class = "netblock"
           THEN /\ RaiseInAttempt({P_NETBLOCK}, Outcome(step, stderr))
                /\ UNCHANGED <<attempts_left, current_cookie_index>>
           ELSE IF class = "retry"
           THEN /\ attempts_left' = attempts_left - 1
                /\ current_cookie_index' = current_cookie_index + 1
                /\ outcomes' = Append(outcomes, Outcome(step, stderr))
                /\ exc' = exc
                /\ pc' = "loop"
           ELSE /\ RaiseInAttempt({prefix} \cup stderr, Outcome(step, stderr))
                /\ UNCHANGED <<attempts_left, current_cookie_index>>

\* exit_code, stdout, stderr = await run_command(info_command), to the edit
\* that announces the download.
RunFetch(r) ==
    /\ pc = "run_fetch"
    /\ IF ~r.launched
       THEN /\ RaiseInAttempt({P_OSERR}, Outcome("launch", {}))
            /\ UNCHANGED <<last_error, attempts_left, current_cookie_index>>
       ELSE IF r.exit # 0
       THEN YtDlpFailed("fetch", r.stderr, P_META)
       ELSE IF ~r.made
       THEN /\ RaiseInAttempt({P_JSON}, Outcome("parse", {}))
            /\ UNCHANGED <<last_error, attempts_left, current_cookie_index>>
       ELSE /\ pc' = "edit_downloading"
            /\ UNCHANGED <<exc, outcomes, last_error, attempts_left, current_cookie_index>>
    /\ CommandReturned(r, r.launched /\ r.exit = 0 /\ r.made)
    /\ UNCHANGED <<COOKIES, peerv, fs, result, reqv, cookies_to_use, sample_pos, cookie_path,
                   user_msg, chatv, tried>>

\* Mutant of RunDownload: the media file is not searched for, the encoding is
\* started on the name the file should have.
RunDownloadWithoutSearch(r) ==
    /\ pc = "run_download"
    /\ IF ~r.launched
       THEN /\ RaiseInAttempt({P_OSERR}, Outcome("launch", {}))
            /\ UNCHANGED <<fs, last_error, attempts_left, current_cookie_index>>
       ELSE IF r.exit # 0
       THEN /\ YtDlpFailed("download", r.stderr, P_DLFAIL)
            /\ fs' = fs
       ELSE \* yt-dlp makes the directory of its output when it is missing;
            \* os.listdir raises when the directory is.
            /\ fs' = [fs EXCEPT ![session_id].media = @ \/ r.made,
                                ![session_id].exists = @ \/ r.made]
            /\ pc' = "edit_encoding"
            /\ UNCHANGED <<exc, outcomes>>
            /\ UNCHANGED <<last_error, attempts_left, current_cookie_index>>
    /\ CommandReturned(r, r.launched /\ r.exit = 0 /\ fs'[session_id].media)
    /\ UNCHANGED <<COOKIES, peerv, result, reqv, cookies_to_use, sample_pos, cookie_path,
                   user_msg, chatv, tried>>

\* exit_code, stdout, stderr = await run_command(download_command), the search
\* of the media file, to the edit that announces the encoding.
RunDownload(r) ==
    /\ pc = "run_download"
    /\ IF ~r.launched
       THEN /\ RaiseInAttempt({P_OSERR}, Outcome("launch", {}))
            /\ UNCHANGED <<fs, last_error, attempts_left, current_cookie_index>>
       ELSE IF r.exit # 0
       THEN /\ YtDlpFailed("download", r.stderr, P_DLFAIL)
            /\ fs' = fs
       ELSE \* yt-dlp makes the directory of its output when it is missing;
            \* os.listdir raises when the directory is.
            /\ fs' = [fs EXCEPT ![session_id].media = @ \/ r.made,
                                ![session_id].exists = @ \/ r.made]
            /\ IF ~fs'[session_id].media
               THEN RaiseInAttempt(IF fs'[session_id].exists THEN {P_MEDIA_NF} ELSE {P_NOFILE},
                                   Outcome("media_missing", {}))
               ELSE /\ pc' = "edit_encoding"
                    /\ UNCHANGED <<exc, outcomes>>
            /\ UNCHANGED <<last_error, attempts_left, current_cookie_index>>
    /\ CommandReturned(r, r.launched /\ r.exit = 0 /\ fs'[session_id].media)
    /\ UNCHANGED <<COOKIES, peerv, result, reqv, cookies_to_use, sample_pos, cookie_path,
                   user_msg, chatv, tried>>

\* exit_code, stdout, stderr = await run_command(ffmpeg_command), the check of
\* the output file, to the edit that announces the upload.
RunFfmpeg(r) ==
    /\ pc = "run_ffmpeg"
    /\ IF ~r.launched
       THEN /\ RaiseInAttempt({P_OSERR}, Outcome("launch", {}))
            /\ fs' = fs
       ELSE IF r.exit # 0
       THEN /\ RaiseInAttempt({P_FFMPEG} \cup r.stderr, Outcome("transcode", {}))
            /\ fs' = fs
       ELSE /\ fs' = [fs EXCEPT ![session_id].output = @ \/ (r.made /\ fs[session_id].exists)]
            /\ IF ~fs'[session_id].output
               THEN RaiseInAttempt({P_OUTPUT_NF}, Outcome("output_missing", {}))
               ELSE /\ pc' = "edit_uploading"
                    /\ UNCHANGED <<exc, outcomes>>
    /\ CommandReturned(r, r.launched /\ r.exit = 0 /\ fs'[session_id].output)
    /\ UNCHANGED <<COOKIES, peerv, result, reqv, loopv, last_error, user_msg, chatv, tried>>

\* await status_message.edit_text("Uploading to Telegram...")
EditUploading(ok) ==
    /\ pc = "edit_uploading"
    /\ IF ok
       THEN /\ chat_status' = {U_UPLOADING}
            /\ pc' = "send_document"
            /\ UNCHANGED <<exc, outcomes>>
       ELSE /\ RaiseInAttempt({P_TGERR}, Outcome("telegram", {}))
            /\ chat_status' = chat_status
    /\ UNCHANGED <<COOKIES, peerv, fs, result, reqv, loopv, last_error, user_msg,
                   chat_replies, chat_docs, cmds, tried>>

\* await context.bot.send_document(...)
SendDocument(ok) ==
    /\ pc = "send_document"
    /\ IF ok
       THEN /\ chat_docs' = chat_docs + 1
            /\ pc' = "delete_status"
            /\ UNCHANGED <<exc, outcomes>>
       ELSE /\ RaiseInAttempt({P_TGERR}, Outcome("telegram", {}))
            /\ chat_docs' = chat_docs
    /\ UNCHANGED <<COOKIES, peerv, fs, result, reqv, loopv, last_error, user_msg,
                   chat_status, chat_replies, cmds, tried>>

\* await status_message.delete(); return
DeleteStatus(ok) ==
    /\ pc = "delete_status"
    /\ IF ok
       THEN /\ chat_status' = {}
            /\ outcomes' = Append(outcomes, Outcome("success", {}))
            /\ exc' = exc
            /\ pc' = "cleanup"
       ELSE /\ RaiseInAttempt({P_TGERR}, Outcome("telegram", {}))
            /\ chat_status' = chat_status
    /\ UNCHANGED <<COOKIES, peerv, fs, result, reqv, loopv, last_error, user_msg,
                   chat_replies, chat_docs, cmds, tried>>

\* Mutant of AttemptFailed: a network block is not raised again, the attempt
\* is counted like any other.
AttemptFailedCountsNetworkBlock ==
    /\ pc = "attempt_failed"
    /\ last_error' = exc.msg
    /\ fs' = IF cookie_path # "None" /\ fs[session_id].cookie # ""
             THEN [fs EXCEPT ![session_id].cookie = ""]
             ELSE fs
    /\ attempts_left' = attempts_left - 1
    /\ current_cookie_index' = current_cookie_index + 1
    /\ IF attempts_left' = 0
       THEN /\ pc' = "request_failed"
            /\ exc' = exc
       ELSE /\ pc' = "loop"
            /\ exc' = NoExc
    /\ UNCHANGED <<COOKIES, peerv, result, reqv, cookies_to_use, sample_pos, cookie_path,
                   user_msg, chatv, histv>>

\* Mutant of AttemptFailed: the attempt is not counted (attempts_left -= 1 is
\* missing).
AttemptFailedKeepsAttempts ==
    /\ pc = "attempt_failed"
    /\ last_error' = exc.msg
    /\ fs' = IF cookie_path # "None" /\ fs[session_id].cookie # ""
             THEN [fs EXCEPT ![session_id].cookie = ""]
             ELSE fs
    /\ IF Contains(exc.msg, N_NETBLOCK)
       THEN /\ pc' = "request_failed"
            /\ UNCHANGED <<attempts_left, current_cookie_index, exc>>
       ELSE /\ attempts_left' = attempts_left
            /\ current_cookie_index' = current_cookie_index + 1
            /\ IF attempts_left' = 0
               THEN /\ pc' = "request_failed"
                    /\ exc' = exc
               ELSE /\ pc' = "loop"
                    /\ exc' = NoExc
    /\ UNCHANGED <<COOKIES, peerv, result, reqv, cookies_to_use, sample_pos, cookie_path,
                   user_msg, chatv, histv>>

\* except Exception as e, inside the loop.
AttemptFailed ==
    /\ pc = "attempt_failed"
    /\ last_error' = exc.msg
    /\ fs' = IF cookie_path # "None" /\ fs[session_id].cookie # ""
             THEN [fs EXCEPT ![session_id].cookie = ""]
             ELSE fs
    /\ IF Contains(exc.msg, N_NETBLOCK)
       THEN /\ pc' = "request_failed"
            /\ UNCHANGED <<attempts_left, current_cookie_index, exc>>
       ELSE /\ attempts_left' = attempts_left - 1
            /\ current_cookie_index' = current_cookie_index + 1
            /\ IF attempts_left' = 0
               THEN /\ pc' = "request_failed"
                    /\ exc' = exc
               ELSE /\ pc' = "loop"
                    /\ exc' = NoExc
    /\ UNCHANGED <<COOKIES, peerv, result, reqv, cookies_to_use, sample_pos, cookie_path,
                   user_msg, chatv, histv>>

\* except Exception as e, around the request: the message to the user is chosen.
RequestFailed ==
    /\ pc = "request_failed"
    /\ user_msg' = UserMessage(exc.msg, last_error)
    /\ exc' = NoExc
    /\ pc' = "edit_final"
    /\ UNCHANGED <<COOKIES, peerv, fs, result, reqv, loopv, last_error, chatv, histv>>

\* await status_message.edit_text(user_msg)
EditFinal(ok) ==
    /\ pc = "edit_final"
    /\ IF ok
       THEN /\ chat_status' = user_msg
            /\ pc' = "cleanup"
       ELSE /\ chat_status' = chat_status
            /\ pc' = "reply_final"
    /\ UNCHANGED <<COOKIES, peerv, fs, result, reqv, loopv, errv, chat_replies, chat_docs, histv>>

\* except Exception: await message.reply_text(user_msg)
ReplyFinal(ok) ==
    /\ pc = "reply_final"
    /\ pc' = "cleanup"
    /\ IF ok
       THEN /\ chat_replies' = Append(chat_replies, user_msg)
            /\ exc' = exc
       ELSE /\ chat_replies' = chat_replies
            /\ exc' = Raised({P_TGERR})
    /\ UNCHANGED <<COOKIES, peerv, fs, result, reqv, loopv, last_error, user_msg,
                   chat_status, chat_docs, histv>>

\* finally: the session directory is removed.
Cleanup ==
    /\ pc = "cleanup"
    /\ fs' = IF fs[session_id].exists THEN rmtree(fs, session_id) ELSE fs
    /\ result' = IF exc.kind = "none" THEN "returned"
                 ELSE IF exc.kind = "Exception" THEN "raised"
                 ELSE "cancelled"
    /\ pc' = "done"
    /\ UNCHANGED <<COOKIES, peerv, reqv, loopv, errv, chatv, histv>>

\* The awaits before the try, and those inside it.
AwaitsOutsideTry == {"reply_no_url", "reply_processing"}
AwaitsInAttempt == {"edit_fetching", "run_fetch", "edit_downloading", "run_download",
                    "edit_encoding", "run_ffmpeg", "edit_uploading", "send_document",
                    "delete_status"}
AwaitsInHandler == {"edit_final", "reply_final"}

\* The task of the handler is cancelled while it is suspended: CancelledError
\* is raised at the await, and no except Exception catches it.
Cancel ==
    /\ pc \in AwaitsOutsideTry \cup AwaitsInAttempt \cup AwaitsInHandler
    /\ exc' = Cancelled
    /\ IF pc \in AwaitsOutsideTry
       THEN /\ pc' = "done"
            /\ result' = "cancelled"
       ELSE /\ pc' = "cleanup"
            /\ result' = result
    /\ outcomes' = IF pc \in AwaitsInAttempt THEN Append(outcomes, Outcome("cancelled", {}))
                   ELSE outcomes
    /\ UNCHANGED <<COOKIES, peerv, fs, reqv, loopv, last_error, user_msg, chatv, cmds, tried>>

\* The handler has ended; the next message can arrive.
Finish ==
    /\ pc = "done"
    /\ Reset
    /\ UNCHANGED <<COOKIES, peerv, fs>>

Next ==
    \/ \E text \in Texts, sid \in SessionIds : Receive(text, sid)
    \/ \E ok \in BOOLEAN : ReplyNoUrl(ok)
    \/ \E ok \in BOOLEAN : ReplyProcessing(ok)
    \/ \E sample \in Samples(Len(COOKIES)) : Prepare(sample)
    \/ Loop
    \/ \E ok \in BOOLEAN : EditFetching(ok)
    \/ \E r \in CmdResults : RunFetch(r)
    \/ \E ok \in BOOLEAN : EditDownloading(ok)
    \/ \E r \in CmdResults : RunDownload(r)
    \/ \E ok \in BOOLEAN : EditEncoding(ok)
    \/ \E r \in CmdResults : RunFfmpeg(r)
    \/ \E ok \in BOOLEAN : EditUploading(ok)
    \/ \E ok \in BOOLEAN : SendDocument(ok)
    \/ \E ok \in BOOLEAN : DeleteStatus(ok)
    \/ AttemptFailed
    \/ RequestFailed
    \/ \E ok \in BOOLEAN : EditFinal(ok)
    \/ \E ok \in BOOLEAN : ReplyFinal(ok)
    \/ Cleanup
    \/ Cancel
    \/ Finish

Spec == Init /\ [][Next]_vars

\* The steps of the handler: every step but the arrival of a message, the
\* cancellation of the task and the end of the task.
HandlerStep ==
    \/ \E ok \in BOOLEAN : ReplyNoUrl(ok)
    \/ \E ok \in BOOLEAN : ReplyProcessing(ok)
    \/ \E sample \in Samples(Len(COOKIES)) : Prepare(sample)
    \/ Loop
    \/ \E ok \in BOOLEAN : EditFetching(ok)
    \/ \E r \in CmdResults : RunFetch(r)
    \/ \E ok \in BOOLEAN : EditDownloading(ok)
    \/ \E r \in CmdResults : RunDownload(r)
    \/ \E ok \in BOOLEAN : EditEncoding(ok)
    \/ \E r \in CmdResults : RunFfmpeg(r)
    \/ \E ok \in BOOLEAN : EditUploading(ok)
    \/ \E ok \in BOOLEAN : SendDocument(ok)
    \/ \E ok \in BOOLEAN : DeleteStatus(ok)
    \/ AttemptFailed
    \/ RequestFailed
    \/ \E ok \in BOOLEAN : EditFinal(ok)
    \/ \E ok \in BOOLEAN : ReplyFinal(ok)
    \/ Cleanup

\* Every call the handler awaits returns or raises, and the event loop runs
\* the handler again when it does.
SpecFair == Spec /\ WF_vars(HandlerStep)

-----------------------------------------------------------------------------
(* A second request handled at the same time: another run of the handler,  *)
(* reduced to what it does to TEMP_DIR.                                    *)

\* session_id = uuid.uuid4().hex[:8]; os.makedirs(session_path, exist_ok=True)
PeerOpen(id) ==
    /\ peer_pc = "idle"
    /\ peer_pc' = "running"
    /\ peer_id' = id
    /\ fs' = makedirs(fs, id)
    /\ UNCHANGED <<COOKIES, pc, result, reqv, loopv, errv, chatv, histv>>

\* Its download command writes media.<ext> into its session directory.
PeerDownload ==
    /\ peer_pc = "running"
    /\ fs[peer_id].exists /\ ~fs[peer_id].media
    /\ fs' = [fs EXCEPT ![peer_id].media = TRUE]
    /\ UNCHANGED <<COOKIES, pc, result, reqv, loopv, errv, chatv, histv, peerv>>

\* finally: if os.path.exists(session_path): shutil.rmtree(session_path)
PeerClose ==
    /\ peer_pc = "running"
    /\ peer_pc' = "idle"
    /\ peer_id' = ""
    /\ fs' = IF fs[peer_id].exists THEN rmtree(fs, peer_id) ELSE fs
    /\ UNCHANGED <<COOKIES, pc, result, reqv, loopv, errv, chatv, histv>>

NextConcurrent ==
    \/ Next
    \/ \E id \in PeerIds : PeerOpen(id)
    \/ PeerDownload
    \/ PeerClose

SpecConcurrent == Init /\ [][NextConcurrent]_vars

-----------------------------------------------------------------------------
(* Vocabulary of the properties.                                           *)

\* The handler has ended.
Ended == pc = "done"

\* The statuses that report progress.
ProgressTexts == {{U_PROCESSING}, {U_FETCHING}, {U_DOWNLOADING}, {U_ENCODING}, {U_UPLOADING}}

\* The status message shows an explanation of a failure.
StatusExplains == chat_status # {} /\ chat_status \notin ProgressTexts

\* The final messages the user has: the documents, the explanation shown by
\* the status message, the explanations sent as replies.
FinalMessages == chat_docs + (IF StatusExplains THEN 1 ELSE 0) + Len(chat_replies)

\* The user has the explanation m: in the status message or as a reply.
Delivered(m) == chat_status = m \/ \E i \in 1..Len(chat_replies) : chat_replies[i] = m

\* The explanations the user has are all m.
OnlyDelivered(m) ==
    /\ StatusExplains => chat_status = m
    /\ \A i \in 1..Len(chat_replies) : chat_replies[i] = m

\* The handler is past the choice of the message to the user.
MessageChosen == pc \in {"edit_final", "reply_final", "cleanup", "done"} /\ user_msg # {}

\* A yt-dlp command of the attempt exited with a failure of hostname resolution.
HostnameFailure(o) == o.how \in {"fetch", "download"} /\ N_HOST \in UNION {NeedlesIn(p) : p \in o.stderr}

\* ... with an authentication-required failure.
AuthFailure(o) ==
    /\ o.how \in {"fetch", "download"}
    /\ ~HostnameFailure(o)
    /\ \E p \in o.stderr : p \in {P_LOGIN, P_LOGIN_CAP}

\* ... with any other failure.
OtherToolFailure(o) == o.how \in {"fetch", "download"} /\ ~HostnameFailure(o) /\ ~AuthFailure(o)

\* No attempt was started, and no command, after attempt i.
NothingAfterAttempt(i) ==
    /\ Len(tried) <= i
    /\ \A c \in 1..Len(cmds) : cmds[c].attempt <= i

\* The number of commands of a kind invoked by the request.
Invoked(kind) == Cardinality({c \in 1..Len(cmds) : cmds[c].cmd = kind})

-----------------------------------------------------------------------------
(* C1..C10                                                                 *)

\* C1: once the handler has ended, the session directory it created no longer
\* exists, on every exit path (return, handled failure, exception raised after
\* the directory was made, cancellation).
C1_WorkspaceRemoved == (Ended /\ session_id # "") => ~fs[session_id].exists

\* C2: a failure of the metadata fetch or of the download that is neither a
\* hostname failure nor an authentication-required failure ends the request:
\* no attempt and no external command follows it.
C2_OtherFailureIsFatal ==
    \A i \in 1..Len(outcomes) : OtherToolFailure(outcomes[i]) => NothingAfterAttempt(i)

\* C3: when the handler has returned, the user has exactly one final message:
\* the document or one explanation of the failure, not both, not two documents,
\* not none.  (Stated for the runs in which the handler returns; in those that
\* end by raising or by cancellation the user may have none.)
C3_ExactlyOneFinalMessage == (Ended /\ result = "returned") => FinalMessages = 1

\* C4: for a request on an Instagram URL with N credentials there are at most
\* N attempts, hence at most N fetches and N downloads, one of each at most in
\* an attempt; each place of COOKIES is used by at most one attempt, the
\* commands of an attempt run with the credential of that place, and after N
\* attempts the places used are all of 1..N.
C4_RotationPlan ==
    is_instagram_url =>
        /\ Len(tried) <= Len(COOKIES)
        /\ Invoked("fetch") <= Len(COOKIES)
        /\ Invoked("download") <= Len(COOKIES)
        /\ \A c, d \in 1..Len(cmds) :
              (cmds[c].cmd = cmds[d].cmd /\ cmds[c].attempt = cmds[d].attempt) => c = d
        /\ \A i \in 1..Len(tried) : tried[i] \in 1..Len(COOKIES)
        /\ \A i, j \in 1..Len(tried) : tried[i] = tried[j] => i = j
        /\ \A c \in 1..Len(cmds) :
              cmds[c].cmd # "ffmpeg" => cmds[c].cookie = COOKIES[tried[cmds[c].attempt]]
        /\ Len(tried) = Len(COOKIES) => {tried[i] : i \in 1..Len(tried)} = 1..Len(COOKIES)

\* C4 witness: both credentials were tried, the second of COOKIES first.
C4_Witness ==
    /\ Ended /\ is_instagram_url
    /\ Len(COOKIES) = 2 /\ tried = <<2, 1>>
    /\ Invoked("fetch") = 2

\* C5: when a yt-dlp command of an attempt on an Instagram URL fails with a
\* hostname-resolution error, that attempt is the last and that command the
\* last command of the request (no download after a failing fetch), the message
\* chosen for the user is the network-block message, no other explanation is
\* delivered, and the user has it when the handler returns.
C5_NetworkBlockHalts ==
    \A i \in 1..Len(outcomes) :
        (is_instagram_url /\ HostnameFailure(outcomes[i])) =>
            /\ i = Len(outcomes)
            /\ NothingAfterAttempt(i)
            /\ cmds[Len(cmds)].cmd = outcomes[i].how
            /\ cmds[Len(cmds)].attempt = i
            /\ pc \in {"attempt_failed", "request_failed", "edit_final", "reply_final",
                       "cleanup", "done"}
            /\ pc \in {"edit_final", "reply_final", "cleanup", "done"} => user_msg = {U_NETBLOCK}
            /\ OnlyDelivered({U_NETBLOCK})
            /\ (Ended /\ result = "returned") => Delivered({U_NETBLOCK})

\* C5 witness: the fetch of the first of two attempts fails with a hostname
\* error, and the request ends with the network-block message.
C5_Witness ==
    /\ Ended /\ result = "returned" /\ is_instagram_url
    /\ Len(COOKIES) = 2 /\ Len(outcomes) = 1
    /\ HostnameFailure(outcomes[1]) /\ outcomes[1].how = "fetch"
    /\ Delivered({U_NETBLOCK})

\* C6: a failure of the transcoding (ffmpeg exits with a status other than 0,
\* or its output file is missing) is followed by no other attempt and no other
\* command.
C6_TranscodeFailureIsFatal ==
    \A i \in 1..Len(outcomes) :
        outcomes[i].how \in {"transcode", "output_missing"} => NothingAfterAttempt(i)

\* C7: the login-required message is chosen only in a request on an Instagram
\* URL all of whose planned attempts ended in an authentication-required
\* failure.
C7_LoginMessageOnlyOnExhaustion ==
    user_msg = {U_LOGIN} =>
        /\ is_instagram_url
        /\ Len(outcomes) = Len(COOKIES)
        /\ \A i \in 1..Len(outcomes) : AuthFailure(outcomes[i])

\* The text holds no URL: each scheme is at its end or followed by white space.
NoRecognizableUrl(text) ==
    \A i \in 1..Len(text) : text[i] = T_SCHEME => (i = Len(text) \/ text[i + 1] = T_SPACE)

\* The state of a request on a text without a URL.
NoUrlRequest ==
    /\ pc \in {"reply_no_url", "done"}
    /\ session_id = ""
    /\ cmds = <<>> /\ tried = <<>> /\ outcomes = <<>>
    /\ chat_docs = 0 /\ chat_status = {}
    /\ \A i \in 1..Len(chat_replies) : chat_replies[i] = {U_NO_URL}
    /\ pc = "reply_no_url" => chat_replies = <<>>
    /\ (Ended /\ result = "returned") => chat_replies = <<{U_NO_URL}>>

\* C8: for a message text without a recognizable URL the handler replies with
\* the invalid-URL message (the only call it makes), invokes no external
\* command, makes no session directory (no step of the request changes the
\* file system) and never enters the attempt loop.
C8_NoUrlReply ==
    [][(pc' # "idle" /\ NoRecognizableUrl(message_text')) => (fs' = fs /\ NoUrlRequest')]_vars

\* C8 witness: a text with a scheme and nothing after it was answered.
C8_Witness ==
    /\ Ended /\ result = "returned"
    /\ message_text = <<T_WORD, T_SPACE, T_SCHEME>>
    /\ chat_replies = <<{U_NO_URL}>>

\* The request is on an Instagram URL that is not of the reel/p/tv shape.
MalformedInstagramUrl == input_url # <<>> /\ IsInstagramUrl(input_url) /\ ~StrictMatch(input_url)

\* C9: a request on an Instagram URL that does not match the reel/p/tv pattern
\* invokes no external command, starts no attempt, writes no credential file,
\* fails with the invalid-format error and ends with the invalid-Instagram-URL
\* message, whatever the credentials.
C9_MalformedInstagramUrl ==
    MalformedInstagramUrl =>
        /\ cmds = <<>> /\ tried = <<>> /\ chat_docs = 0
        /\ fs[session_id].cookie = "" /\ cookie_path = "None"
        /\ pc \in {"reply_processing", "prepare", "request_failed", "edit_final",
                   "reply_final", "cleanup", "done"}
        /\ pc = "request_failed" => exc.msg = {P_INVALID}
        /\ pc \in {"edit_final", "reply_final", "cleanup"} => user_msg = {U_INVALID_IG}
        /\ OnlyDelivered({U_INVALID_IG})
        /\ (Ended /\ result = "returned") => Delivered({U_INVALID_IG})

\* C9 witness: with credentials configured, a malformed Instagram URL was
\* answered with the invalid-Instagram-URL message.
C9_Witness ==
    /\ Ended /\ result = "returned"
    /\ MalformedInstagramUrl /\ COOKIES # <<>>
    /\ chat_status = {U_INVALID_IG}

\* The request is on an Instagram URL and no credential is configured.
InstagramWithoutCookies == input_url # <<>> /\ IsInstagramUrl(input_url) /\ COOKIES = <<>>

\* C10, as claimed: a request on an Instagram URL with no credential configured
\* fails with the configuration error, before any command and any credential
\* file.
C10_ConfigurationError ==
    InstagramWithoutCookies =>
        /\ cmds = <<>> /\ tried = <<>>
        /\ fs[session_id].cookie = "" /\ cookie_path = "None"
        /\ pc = "request_failed" => exc.msg = {P_NOCOOKIES}

\* C10, amended: such a request fails before any command, any attempt and any
\* credential file; the error is the configuration error when the URL has the
\* reel/p/tv shape, and the invalid-format error when it has not.
C10_FailsBeforeAnyCommand ==
    InstagramWithoutCookies =>
        /\ cmds = <<>> /\ tried = <<>>
        /\ fs[session_id].cookie = "" /\ cookie_path = "None"
        /\ pc \in {"reply_processing", "prepare", "request_failed", "edit_final",
                   "reply_final", "cleanup", "done"}
        /\ pc = "request_failed" =>
              exc.msg = IF StrictMatch(input_url) THEN {P_NOCOOKIES} ELSE {P_INVALID}

\* C10 witness: the configuration error was raised for a well-formed URL.
C10_Witness ==
    /\ InstagramWithoutCookies /\ StrictMatch(input_url)
    /\ pc = "request_failed" /\ exc.msg = {P_NOCOOKIES}

-----------------------------------------------------------------------------
(* C11..C20                                                                *)

\* The session of the request is open: its directory was made and its handler
\* has not ended.
SessionOpen == session_id # "" /\ pc \notin {"idle", "done"}

\* C11: two sessions that are open at the same time never have the same
\* workspace directory (so that the teardown of one cannot remove the files of
\* the other).
C11_IsolatedWorkspaces == (SessionOpen /\ peer_pc = "running") => peer_id # session_id

\* C12: when an attempt that wrote a credential file has failed, the file is
\* gone by the time the loop goes on to the next attempt or the request aborts.
C12_CredentialFileDeleted ==
    (pc \in {"loop", "request_failed"} /\ outcomes # <<>>) => fs[session_id].cookie = ""

\* C13: a request that ends because the downloaded media file or the output
\* file of the transcoding is missing gets the file-not-found message (each
\* classification has its own message).
C13_FileNotFoundMessage ==
    ( /\ MessageChosen
      /\ outcomes # <<>>
      /\ outcomes[Len(outcomes)].how \in {"media_missing", "output_missing"} )
    => user_msg = {U_MEDIA_NF}

\* The attempts so far: all but the last ended with an authentication-required
\* failure of the metadata fetch, the last went through to the end.
AuthFetchFailuresThenSuccess ==
    /\ is_instagram_url
    /\ outcomes # <<>>
    /\ outcomes[Len(outcomes)].how = "success"
    /\ \A i \in 1..(Len(outcomes) - 1) : outcomes[i].how = "fetch" /\ AuthFailure(outcomes[i])

\* C14: for an Instagram URL, when the fetch fails with authentication-required
\* for the first k-1 credentials and every step succeeds with the k-th, the
\* request has invoked k fetches, one download and one transcoding, and the
\* final message of the user is the document (one document, no explanation,
\* the status message deleted).
C14_SuccessAfterAuthFailures ==
    AuthFetchFailuresThenSuccess =>
        /\ Len(outcomes) <= Len(COOKIES)
        /\ Len(tried) = Len(outcomes)
        /\ Invoked("fetch") = Len(outcomes)
        /\ Invoked("download") = 1
        /\ Invoked("ffmpeg") = 1
        /\ \A c \in 1..Len(cmds) : cmds[c].cmd # "fetch" => cmds[c].attempt = Len(outcomes)
        /\ chat_docs = 1 /\ chat_status = {} /\ chat_replies = <<>>
        /\ Ended => result = "returned"

\* C14 witness: two credentials, the first refused, the second accepted.
C14_Witness ==
    /\ AuthFetchFailuresThenSuccess /\ Ended
    /\ Len(COOKIES) = 2 /\ Len(outcomes) = 2
    /\ Invoked("fetch") = 2 /\ chat_docs = 1

\* C15: a request on a URL that is not an Instagram URL makes exactly one
\* attempt, whatever the number of credentials: no credential file is written
\* and no command names one, each command is invoked at most once, the
\* document is delivered when the attempt succeeds, and nothing follows a
\* failure of the attempt.
C15_GenericUrlSingleAttempt ==
    (input_url # <<>> /\ ~IsInstagramUrl(input_url)) =>
        /\ Len(tried) <= 1
        /\ pc \in AwaitsInAttempt \cup {"attempt_failed", "request_failed"} \cup AwaitsInHandler
              => Len(tried) = 1
        /\ (Ended /\ result = "returned") => Len(tried) = 1
        /\ \A i \in 1..Len(tried) : tried[i] = 0
        /\ cookie_path = "None"
        /\ session_id # "" => fs[session_id].cookie = ""
        /\ \A c \in 1..Len(cmds) : cmds[c].cookie = ""
        /\ Invoked("fetch") <= 1 /\ Invoked("download") <= 1 /\ Invoked("ffmpeg") <= 1
        /\ Len(outcomes) <= 1
        /\ \A i \in 1..Len(outcomes) :
              /\ NothingAfterAttempt(i)
              /\ outcomes[i].how = "success" => chat_docs = 1
        /\ chat_docs <= 1

\* C15 witness: credentials are configured, the URL is not an Instagram URL,
\* the document was delivered.
C15_Witness ==
    /\ Ended /\ input_url # <<>> /\ ~IsInstagramUrl(input_url)
    /\ COOKIES # <<>> /\ tried = <<0>>
    /\ chat_docs = 1 /\ result = "returned"

\* The attempts the request may make: one for each credential it goes through,
\* one when it goes through none.
Budget == IF cookies_to_use # <<>> THEN Len(cookies_to_use) ELSE 1

\* The handler is past the attempts and every attempt of the budget was
\* consumed without success.
Exhausted ==
    /\ pc \in {"request_failed", "edit_final", "reply_final", "cleanup", "done"}
    /\ Len(outcomes) = Budget
    /\ attempts_left = 0
    /\ \A i \in 1..Len(outcomes) : outcomes[i].how \notin {"success", "cancelled"}

\* C16: when every attempt of the budget was consumed without success the
\* request is over: no command and no attempt follows, a failure message is
\* chosen and the user has it when the handler returns, the session directory
\* is removed when the handler ends, and last_error is the error text of the
\* last attempt: the stderr of its failed command when all attempts on an
\* Instagram URL ended with an authentication-required failure, a text that
\* holds that stderr when the
\* last attempt ended with another failure of a yt-dlp command.
C16_ExhaustionCarriesLastError ==
    Exhausted =>
        /\ NothingAfterAttempt(Budget)
        /\ (is_instagram_url /\ \A i \in 1..Len(outcomes) : AuthFailure(outcomes[i]))
              => last_error = outcomes[Len(outcomes)].stderr
        /\ outcomes[Len(outcomes)].how \in {"fetch", "download"}
              => outcomes[Len(outcomes)].stderr \subseteq last_error
        /\ MessageChosen => OnlyDelivered(user_msg)
        /\ (Ended /\ result = "returned") => Delivered(user_msg)
        /\ Ended => ~fs[session_id].exists

\* C16 witness: two credentials, both refused with different texts; last_error
\* is the text of the second refusal and the user has the login message.
C16_Witness ==
    /\ Exhausted /\ Ended /\ result = "returned"
    /\ is_instagram_url /\ Len(outcomes) = 2
    /\ outcomes[1].stderr = {P_LOGIN} /\ AuthFailure(outcomes[1])
    /\ outcomes[2].stderr = {P_LOGIN_CAP} /\ AuthFailure(outcomes[2])
    /\ last_error = {P_LOGIN_CAP}
    /\ Delivered({U_LOGIN})

\* C17: no step of a request changes COOKIES: the list holds the same
\* credentials in the same order as after load_cookies (the shuffle of a
\* request makes a new list).  Every step of every handler being such a step,
\* this holds for any sequence and any interleaving of requests.
C17_CookiesUnchanged == [][COOKIES' = COOKIES]_vars

\* C17 witness: a request went through both credentials in the order second,
\* first, and COOKIES is in the order of load_cookies.
C17_Witness ==
    /\ Ended /\ sample_pos = <<2, 1>>
    /\ cookies_to_use = <<CookieValue(2), CookieValue(1)>>
    /\ COOKIES = <<CookieValue(1), CookieValue(2)>>

\* The command before command c, in the same attempt, is of the kind given,
\* exited with status 0 and left what the handler looks for after it.
AfterSuccessful(c, kind) ==
    /\ c > 1
    /\ cmds[c - 1].cmd = kind
    /\ cmds[c - 1].attempt = cmds[c].attempt
    /\ cmds[c - 1].exit = 0
    /\ cmds[c - 1].found

\* C18: within an attempt the steps are ordered: a download is invoked only
\* after the fetch of the same attempt exited with status 0, and with the same
\* credential; the encoding only after the download of the same attempt exited
\* with status 0 and a media file was found; the document is sent only after
\* the encoding of the same attempt exited with status 0 and its output file
\* exists.
C18_StepsOrdered ==
    /\ \A c \in 1..Len(cmds) :
          /\ cmds[c].cmd = "fetch" => (c > 1 => cmds[c - 1].attempt < cmds[c].attempt)
          /\ cmds[c].cmd = "download" =>
                AfterSuccessful(c, "fetch") /\ cmds[c - 1].cookie = cmds[c].cookie
          /\ cmds[c].cmd = "ffmpeg" => AfterSuccessful(c, "download")
    /\ pc \in {"edit_uploading", "send_document", "delete_status"} =>
          /\ cmds # <<>>
          /\ cmds[Len(cmds)].cmd = "ffmpeg"
          /\ cmds[Len(cmds)].attempt = Len(tried)
          /\ cmds[Len(cmds)].exit = 0
          /\ cmds[Len(cmds)].found
          /\ fs[session_id].output
    /\ chat_docs > 0 =>
          \E c \in 1..Len(cmds) : cmds[c].cmd = "ffmpeg" /\ cmds[c].exit = 0 /\ cmds[c].found

\* C18 witness: the second attempt of a request went through fetch, download
\* and encoding with the second credential tried, and the document was sent.
C18_Witness ==
    /\ Ended /\ chat_docs = 1
    /\ Len(tried) = 2 /\ Len(cmds) = 4
    /\ cmds[2].cmd = "fetch" /\ cmds[3].cmd = "download" /\ cmds[4].cmd = "ffmpeg"
    /\ cmds[2].cookie = COOKIES[tried[2]] /\ cmds[3].cookie = cmds[2].cookie

\* C19: each time the condition of the loop is evaluated, attempts_left plus
\* current_cookie_index is the budget of the request (the number of credentials
\* it goes through, 1 when it goes through none), and each time
\* cookies_to_use[current_cookie_index] is read the index is within the list:
\* the IndexError of an index out of range is never raised.
C19_BudgetAccounting ==
    /\ pc = "loop" =>
          /\ attempts_left + current_cookie_index = Budget
          /\ attempts_left \in 0..Budget
          /\ (attempts_left > 0 /\ cookies_to_use # <<>>)
                => current_cookie_index \in 0..(Len(cookies_to_use) - 1)
    /\ P_INDEX \notin exc.msg
    /\ P_INDEX \notin last_error

\* C19 witness: the condition is evaluated after a first attempt of two, one
\* ended by the `continue` of an authentication-required failure.
C19_Witness ==
    /\ pc = "loop" /\ Len(cookies_to_use) = 2
    /\ attempts_left = 1 /\ current_cookie_index = 1
    /\ Len(outcomes) = 1 /\ AuthFailure(outcomes[1])

\* A step that leads back to the condition of the loop from inside an attempt
\* leaves attempts_left smaller than it was, and not below 0.
LoopPassDecreases ==
    (pc \notin {"prepare", "loop"} /\ pc' = "loop")
        => (attempts_left' < attempts_left /\ attempts_left' >= 0)

\* The RuntimeError("Unexpected state...") after the loop is raised only when
\* the last attempt ended with an authentication-required failure.
UnexpectedOnlyAfterAuthFailure ==
    P_UNEXPECTED \in exc.msg =>
        /\ is_instagram_url
        /\ outcomes # <<>>
        /\ AuthFailure(outcomes[Len(outcomes)])

\* C20: provided every call the handler awaits returns or raises, every
\* request reaches the end of the handler; each pass of the loop that comes
\* back to its condition makes attempts_left strictly smaller; and the
\* "Unexpected state" error after the loop is reached only when the last
\* attempt ended with an authentication-required failure.
C20_Terminates ==
    /\ (pc # "idle") ~> Ended
    /\ [][LoopPassDecreases]_vars
    /\ []UnexpectedOnlyAfterAuthFailure

\* C20 witness: both attempts of a request ended with an authentication-
\* required failure, the loop ended, and the handler ended after the
\* "Unexpected state" error.
C20_Witness ==
    /\ Ended /\ result = "returned"
    /\ Len(tried) = 2 /\ attempts_left = 0
    /\ Len(outcomes) = 2 /\ AuthFailure(outcomes[2])
    /\ user_msg = {U_LOGIN}

====
